---- MODULE Spec2Model ----
(***************************************************************************)
(* CoordinateTransform of meglib/baselib.py: a 2x2 affine map x_y = A.i_j  *)
(* + b with a cached inverse (A_inv, b_inv), fitted from three point       *)
(* correspondences.                                                        *)
(*                                                                         *)
(* Numbers are exact rationals [n, d] in lowest terms with d > 0; numpy's  *)
(* float64 rounding is not modelled.  numpy arrays are objects on a heap:  *)
(* an instance attribute holds the id of an array, `store` holds the       *)
(* array's value, so that sharing of storage between instances is visible. *)
(* Python exceptions are outcomes: LinAlgError (scipy.linalg.inv of a      *)
(* singular matrix), NameError, ValueError (np.array of inhomogeneous      *)
(* parts) and IndexError.                                                  *)
(***************************************************************************)
EXTENDS Integers, Sequences, FiniteSets, TLC

\* ----------------------------------------------------------------- bounds
NumObjs == 2
MaxCoord == 1
MaxWrites == 1

Objs == 1..NumObjs
Fields == <<"A", "b", "A_inv", "b_inv">>
ArrIds == 1..(4 * NumObjs)
Labels == {"", "utm17"}

\* ------------------------------------------------------- exact arithmetic
Abs(x) == IF x < 0 THEN -x ELSE x

RECURSIVE GCD(_, _)
GCD(a, b) == IF b = 0 THEN a ELSE GCD(b, a % b)

\* the rational n/d in lowest terms (d # 0)
Q(n, d) ==
    LET g == GCD(Abs(n), Abs(d))
        s == IF d < 0 THEN -1 ELSE 1
    IN [n |-> (s * n) \div g, d |-> (s * d) \div g]

R(k) == [n |-> k, d |-> 1]
RAdd(x, y) == Q(x.n * y.d + y.n * x.d, x.d * y.d)
RSub(x, y) == Q(x.n * y.d - y.n * x.d, x.d * y.d)
RMul(x, y) == Q(x.n * y.n, x.d * y.d)
RDiv(x, y) == Q(x.n * y.d, x.d * y.n)
RNeg(x) == [n |-> -x.n, d |-> x.d]

\* a point or vector of integers as a vector of numbers (np.array(p))
np_vec(p) == <<R(p[1]), R(p[2])>>
VSub(u, v) == <<RSub(u[1], v[1]), RSub(u[2], v[2])>>
VAdd(u, v) == <<RAdd(u[1], v[1]), RAdd(u[2], v[2])>>
VNeg(u) == <<RNeg(u[1]), RNeg(u[2])>>

\* M.T of a 2x2 matrix given as a pair of rows
MT(M) == <<<<M[1][1], M[2][1]>>, <<M[1][2], M[2][2]>>>>

\* M.dot(N) for 2x2 matrices
MatMul(M, N) ==
    [r \in 1..2 |-> [c \in 1..2 |->
        RAdd(RMul(M[r][1], N[1][c]), RMul(M[r][2], N[2][c]))]]

\* M.dot(v): matrix times a 1-D vector
MatVec(M, v) ==
    [r \in 1..2 |-> RAdd(RMul(M[r][1], v[1]), RMul(M[r][2], v[2]))]

\* v.dot(M): a 1-D vector times a matrix
VecMat(v, M) ==
    [c \in 1..2 |-> RAdd(RMul(v[1], M[1][c]), RMul(v[2], M[2][c]))]

Det(M) == RSub(RMul(M[1][1], M[2][2]), RMul(M[1][2], M[2][1]))

\* faulty variant: a matrix of negative determinant is taken for singular too
linalg_singular_neg(M) == Det(M).n <= 0

\* scipy.linalg.inv raises LinAlgError("singular matrix") exactly when the
\* matrix has no inverse
linalg_singular(M) == Det(M).n = 0

\* scipy.linalg.inv of a matrix that has an inverse
linalg_inv(M) ==
    LET dt == Det(M)
    IN <<<<RDiv(M[2][2], dt), RDiv(RNeg(M[1][2]), dt)>>,
         <<RDiv(RNeg(M[2][1]), dt), RDiv(M[1][1], dt)>>>>

np_identity == <<<<R(1), R(0)>>, <<R(0), R(1)>>>>
np_zeros == <<R(0), R(0)>>

\* ------------------------------------------------------------------ state
VARIABLES
    obj,      \* obj[t]: the attributes of instance t: array ids and utm
    store,    \* store[id]: the value of array id, Free when no array has it
    last,     \* the last call: operation, receiver, arguments, outcome, result
    writes,   \* number of in-place element writes done by callers
    origin    \* origin[t] = u: slot t holds the instance u.clone() returned
              \* (0: the instance in slot t was constructed directly)

vars == <<obj, store, last, writes, origin>>

Free == <<>>

Heap == [o |-> obj, s |-> store]

\* the value of attribute f of instance t in heap h
ValIn(h, t, f) == h.s[h.o[t][f]]
Val(t, f) == store[obj[t][f]]

RefsIn(o) == {o[u][Fields[k]] : u \in Objs, k \in 1..4}

\* self.f = <a newly created array of value val>.  The array is new: when the
\* array the attribute held before has no other referrer it is reclaimed and
\* its id is taken again, otherwise the new array gets an unused id.
New(h, t, f, val) ==
    LET old == h.o[t][f]
        shared == \E u \in Objs, k \in 1..4 :
                      /\ <<u, Fields[k]>> # <<t, f>>
                      /\ h.o[u][Fields[k]] = old
        unused == ArrIds \ RefsIn(h.o)
        id == IF shared THEN CHOOSE i \in unused : \A j \in unused : i <= j
              ELSE old
    IN [o |-> [h.o EXCEPT ![t][f] = id], s |-> [h.s EXCEPT ![id] = val]]

Call(op, t, args, outcome, ret) ==
    [op |-> op, t |-> t, args |-> args, outcome |-> outcome, ret |-> ret]

None == <<>>

\* ------------------------------------------------------------ constructor
\* faulty variant: b starts as np.ones(2)
init_fields_ones(h, t) ==
    LET h1 == New(h, t, "A", np_identity)
        h2 == New(h1, t, "b", <<R(1), R(1)>>)
        h3 == New(h2, t, "A_inv", linalg_inv(ValIn(h2, t, "A")))
        h4 == New(h3, t, "b_inv",
                  VNeg(MatVec(ValIn(h3, t, "A_inv"), ValIn(h3, t, "b"))))
    IN [h4 EXCEPT !.o[t].utm = ""]

\* CoordinateTransform.__init__ on the instance in slot t
init_fields(h, t) ==
    LET h1 == New(h, t, "A", np_identity)
        h2 == New(h1, t, "b", np_zeros)
        h3 == New(h2, t, "A_inv", linalg_inv(ValIn(h2, t, "A")))
        h4 == New(h3, t, "b_inv",
                  VNeg(MatVec(ValIn(h3, t, "A_inv"), ValIn(h3, t, "b"))))
    IN [h4 EXCEPT !.o[t].utm = ""]

Init ==
    /\ obj = [t \in Objs |->
                [A |-> 4 * (t - 1) + 1, b |-> 4 * (t - 1) + 2,
                 A_inv |-> 4 * (t - 1) + 3, b_inv |-> 4 * (t - 1) + 4,
                 utm |-> ""]]
    /\ store = [i \in ArrIds |->
                  CASE i % 4 = 1 -> np_identity
                    [] i % 4 = 2 -> np_zeros
                    [] i % 4 = 3 -> linalg_inv(np_identity)
                    [] OTHER -> VNeg(MatVec(linalg_inv(np_identity), np_zeros))]
    /\ last = Call("__init__", NumObjs, None, "ok", None)
    /\ writes = 0
    /\ origin = [t \in Objs |-> 0]

\* t = CoordinateTransform(): slot t holds a new instance
Construct(t) ==
    LET h == init_fields(Heap, t)
    IN /\ obj' = h.o
       /\ store' = h.s
       /\ last' = Call("__init__", t, None, "ok", None)
       /\ origin' = [u \in Objs |-> IF u = t \/ origin[u] = t THEN 0 ELSE origin[u]]
       /\ UNCHANGED writes

\* ---------------------------------------------------------------- the fit
\* the three-point inputs.  Source (i_j) triples: general position at the
\* origin and off it, three distinct collinear points, a duplicated point.
\* Destination (x_y) triples: a translation of the unit triple, a triple in
\* general position, three distinct collinear points.
UnitTriple == <<<<0, 0>>, <<1, 0>>, <<0, 1>>>>

SrcTriples ==
    { UnitTriple,
      <<<<1, 1>>, <<1, 3>>, <<2, 1>>>>,
      <<<<0, 0>>, <<1, 0>>, <<2, 0>>>>,
      <<<<1, 1>>, <<1, 1>>, <<0, 1>>>> }

DstTriples ==
    { <<<<5, 5>>, <<6, 5>>, <<5, 6>>>>,
      <<<<1, 1>>, <<1, 3>>, <<2, 1>>>>,
      <<<<0, 0>>, <<1, 1>>, <<2, 2>>>> }

\* np.array([p[2] - p[0], p[1] - p[0]]).T : the differences as columns
Delta(p) ==
    MT(<<VSub(np_vec(p[3]), np_vec(p[1])), VSub(np_vec(p[2]), np_vec(p[1]))>>)

\* faulty variant: self.A is assigned dx before ds is inverted
three_point_set_early(t, x_y_points, i_j_points, utm) ==
    LET h0 == [Heap EXCEPT !.o[t].utm = utm]
        dx == Delta(x_y_points)
        ds == Delta(i_j_points)
        args == [x_y_points |-> x_y_points, i_j_points |-> i_j_points,
                 utm |-> utm]
    IN /\ UNCHANGED <<writes, origin>>
       /\ IF linalg_singular(ds)
          THEN LET h1 == New(h0, t, "A", dx)
               IN /\ obj' = h1.o
                  /\ store' = h1.s
                  /\ last' = Call("three_point_set", t, args, "LinAlgError", None)
          ELSE LET h1 == New(h0, t, "A", MatMul(dx, linalg_inv(ds)))
               IN /\ obj' = h1.o
                  /\ store' = h1.s
                  /\ last' = Call("three_point_set", t, args, "NameError", None)

\* three_point_set(self, x_y_points, i_j_points, utm)
three_point_set(t, x_y_points, i_j_points, utm) ==
    LET h0 == [Heap EXCEPT !.o[t].utm = utm]
        dx == Delta(x_y_points)
        ds == Delta(i_j_points)
        args == [x_y_points |-> x_y_points, i_j_points |-> i_j_points,
                 utm |-> utm]
    IN /\ UNCHANGED <<writes, origin>>
       /\ IF linalg_singular(ds)
          THEN \* linalg.inv(ds) raises before self.A is assigned
               /\ obj' = h0.o
               /\ store' = h0.s
               /\ last' = Call("three_point_set", t, args, "LinAlgError", None)
          ELSE \* self.A is assigned, then the name ep_cdp_points, which is
               \* no parameter, local or module global, raises NameError
               LET h1 == New(h0, t, "A", MatMul(dx, linalg_inv(ds)))
               IN /\ obj' = h1.o
                  /\ store' = h1.s
                  /\ last' = Call("three_point_set", t, args, "NameError", None)

Fit ==
    \E t \in Objs, x_y_points \in DstTriples, i_j_points \in SrcTriples, utm \in Labels :
        three_point_set(t, x_y_points, i_j_points, utm)

\* ------------------------------------------------------- clone, copy_obj
\* faulty variant: t.f = u.g without deepcopy, the two attributes share one array
deepcopy_attr_alias(h, t, f, u, g) ==
    LET o1 == [h.o EXCEPT ![t][f] = h.o[u][g]]
    IN [o |-> o1,
        s |-> [i \in ArrIds |-> IF i \in RefsIn(o1) THEN h.s[i] ELSE Free]]

\* t.f = deepcopy(u.g): a new array holding the value of u.g
deepcopy_attr(h, t, f, u, g) == New(h, t, f, ValIn(h, u, g))

\* new_transform = self.clone(), the result held in slot t2
clone(self, t2) ==
    LET h0 == init_fields(Heap, t2)
        h1 == deepcopy_attr(h0, t2, "A", self, "A")
        h2 == deepcopy_attr(h1, t2, "b", self, "b")
        h3 == deepcopy_attr(h2, t2, "A_inv", self, "A_inv")
        h4 == deepcopy_attr(h3, t2, "b_inv", self, "b_inv")
    IN /\ self # t2
       /\ obj' = h4.o
       /\ store' = h4.s
       /\ last' = Call("clone", self, None, "ok", t2)
       /\ origin' = [u \in Objs |-> IF u = t2 THEN self
                                   ELSE IF origin[u] = t2 THEN 0 ELSE origin[u]]
       /\ UNCHANGED writes

\* faulty variant: self.A = old_transform.A, without deepcopy
copy_obj_shallow(self, old_transform) ==
    LET h1 == deepcopy_attr_alias(Heap, self, "A", old_transform, "A")
        h2 == deepcopy_attr(h1, self, "b", old_transform, "b")
        h3 == deepcopy_attr(h2, self, "A_inv", old_transform, "A_inv")
        h4 == deepcopy_attr(h3, self, "b_inv", old_transform, "b_inv")
    IN /\ obj' = h4.o
       /\ store' = h4.s
       /\ last' = Call("copy_obj", self, old_transform, "ok", self)
       /\ UNCHANGED <<writes, origin>>

\* self.copy_obj(old_transform)
copy_obj(self, old_transform) ==
    LET h1 == deepcopy_attr(Heap, self, "A", old_transform, "A")
        h2 == deepcopy_attr(h1, self, "b", old_transform, "b")
        h3 == deepcopy_attr(h2, self, "A_inv", old_transform, "A_inv")
        h4 == deepcopy_attr(h3, self, "b_inv", old_transform, "b_inv")
    IN /\ obj' = h4.o
       /\ store' = h4.s
       /\ last' = Call("copy_obj", self, old_transform, "ok", self)
       /\ UNCHANGED <<writes, origin>>

Clone == \E self \in Objs, t2 \in Objs : clone(self, t2)
CopyObj == \E self \in Objs, old_transform \in Objs : copy_obj(self, old_transform)

\* ------------------------------------------------- in-place element write
WriteVals == {2}

\* the places of an array value: <<r, c>> of a matrix, <<k>> of a vector
Places(f) ==
    IF f \in {"A", "A_inv"} THEN {<<r, c>> : r \in 1..2, c \in 1..2}
    ELSE {<<k>> : k \in 1..2}

SetItem(a, pl, v) ==
    IF Len(pl) = 2 THEN [a EXCEPT ![pl[1]][pl[2]] = R(v)]
    ELSE [a EXCEPT ![pl[1]] = R(v)]

\* caller code t.f[pl] = v: numpy writes the element into the array's storage
setitem(t, f, pl, v) ==
    /\ writes < MaxWrites
    /\ writes' = writes + 1
    /\ store' = [store EXCEPT ![obj[t][f]] = SetItem(@, pl, v)]
    /\ obj' = obj
    /\ origin' = origin
    /\ last' = Call("setitem", t, [f |-> f, place |-> pl, v |-> v], "ok", None)

Write ==
    \E t \in Objs, k \in 1..4, v \in WriteVals :
        \E pl \in Places(Fields[k]) : setitem(t, Fields[k], pl, v)

\* ------------------------------------------------------ point evaluation
\* the evaluation points, as vectors of numbers
EvalPoints == {np_vec(<<x, y>>) : x \in 0..MaxCoord, y \in 0..MaxCoord}

\* self.A.dot(i_j) + self.b
x_y(t, i_j_pt) == VAdd(MatVec(Val(t, "A"), i_j_pt), Val(t, "b"))

\* self.A_inv.dot(x_y) + self.b_inv
i_j(t, x_y_pt) == VAdd(MatVec(Val(t, "A_inv"), x_y_pt), Val(t, "b_inv"))

\* faulty variant: the matrix is not transposed
x_y_T_plain(t, ep_cdp) == VAdd(VecMat(ep_cdp, Val(t, "A")), Val(t, "b"))

\* np.array(ep_cdp).dot(self.A.T) + self.b
x_y_T(t, ep_cdp) == VAdd(VecMat(ep_cdp, MT(Val(t, "A"))), Val(t, "b"))

\* np.array(x_y).dot(self.A_inv.T) + self.b_inv
i_j_T(t, x_y_pt) == VAdd(VecMat(x_y_pt, MT(Val(t, "A_inv"))), Val(t, "b_inv"))

PointOps == {"x_y", "i_j", "x_y_T", "i_j_T"}

PointResult(op, t, p) ==
    CASE op = "x_y" -> x_y(t, p)
      [] op = "i_j" -> i_j(t, p)
      [] op = "x_y_T" -> x_y_T(t, p)
      [] OTHER -> i_j_T(t, p)

\* a call of one of the four point forms; the instance is only read
EvalPoint(t, op, p) ==
    /\ last' = Call(op, t, p, "ok", PointResult(op, t, p))
    /\ UNCHANGED <<obj, store, writes, origin>>

\* ------------------------------------------------- N-dimensional arrays
\* an array is [shape, at]: its extents and its element at each index
MaxRank == 3
MaxLen == 2

SeqMax(sh) == CHOOSE m \in {sh[k] : k \in 1..Len(sh)} : \A k \in 1..Len(sh) : sh[k] <= m

Idx(sh) ==
    IF Len(sh) = 0 THEN {<<>>}
    ELSE {ix \in [1..Len(sh) -> 1..SeqMax(sh)] : \A k \in 1..Len(sh) : ix[k] <= sh[k]}

Rev(sq) == [k \in 1..Len(sq) |-> sq[Len(sq) + 1 - k]]
Front(sq) == SubSeq(sq, 1, Len(sq) - 1)
Last(sq) == sq[Len(sq)]

Raise(e) == [outcome |-> e, ret |-> None]
Ok(v) == [outcome |-> "ok", ret |-> v]

\* faulty variant: the second part is cut or zero-padded to the shape of the first
np_array2_pad(i, j) ==
    Ok([shape |-> <<2>> \o i.shape,
        at |-> [ix \in Idx(<<2>> \o i.shape) |->
                  IF ix[1] = 1 THEN i.at[Tail(ix)]
                  ELSE IF Tail(ix) \in DOMAIN j.at THEN j.at[Tail(ix)]
                  ELSE R(0)]])

\* np.array([i, j]): the two parts stacked along a new first axis; parts of
\* different shapes are inhomogeneous and raise ValueError
np_array2(i, j) ==
    IF i.shape # j.shape THEN Raise("ValueError")
    ELSE Ok([shape |-> <<2>> \o i.shape,
             at |-> [ix \in Idx(<<2>> \o i.shape) |->
                       IF ix[1] = 1 THEN i.at[Tail(ix)] ELSE j.at[Tail(ix)]]])

\* a.T: the axes reversed
nd_T(a) ==
    [shape |-> Rev(a.shape),
     at |-> [ix \in Idx(Rev(a.shape)) |-> a.at[Rev(ix)]]]

\* a.dot(M) for a 2-D M: the sum over the last axis of a and the first of M
nd_dot(a, M) ==
    [shape |-> Front(a.shape) \o <<2>>,
     at |-> [ix \in Idx(Front(a.shape) \o <<2>>) |->
               RAdd(RMul(a.at[Front(ix) \o <<1>>], M[1][Last(ix)]),
                    RMul(a.at[Front(ix) \o <<2>>], M[2][Last(ix)]))]]

\* a + v: the 1-D v broadcast along the last axis of a
nd_add(a, v) ==
    [shape |-> a.shape,
     at |-> [ix \in Idx(a.shape) |-> RAdd(a.at[ix], v[Last(ix)])]]

\* x[k, :, ...]: the part of x at position k (from 1) of its first axis
nd_part(x, k) ==
    [shape |-> Tail(x.shape),
     at |-> [ix \in Idx(Tail(x.shape)) |-> x.at[<<k>> \o ix]]]

\* faulty variant: the final transposition is left out and the parts are taken
\* along the last axis, so the axes of the results come out reversed
stacked_map_noT(i, j, M, v, slices) ==
    LET s == np_array2(i, j)
    IN IF s.outcome # "ok" THEN s
       ELSE LET x == nd_T(nd_add(nd_dot(nd_T(s.ret), MT(M)), v))
            IN IF Len(x.shape) < 1 + slices THEN Raise("IndexError")
               ELSE Ok(<<nd_T(nd_part(x, 1)), nd_T(nd_part(x, 2))>>)

\* (s.T.dot(M.T) + v).T and the indexing x[0, :, ..], x[1, :, ..] with
\* `slices` colons, which raises IndexError when x has fewer axes than indices
stacked_map(i, j, M, v, slices) ==
    LET s == np_array2(i, j)
    IN IF s.outcome # "ok" THEN s
       ELSE LET x == nd_T(nd_add(nd_dot(nd_T(s.ret), MT(M)), v))
            IN IF Len(x.shape) < 1 + slices THEN Raise("IndexError")
               ELSE Ok(<<nd_part(x, 1), nd_part(x, 2)>>)

x_y_array(t, i, j) == stacked_map(i, j, Val(t, "A"), Val(t, "b"), 2)
i_j_array(t, x_in, y_in) == stacked_map(x_in, y_in, Val(t, "A_inv"), Val(t, "b_inv"), 2)
x_y_vector(t, ep, cdp) == stacked_map(ep, cdp, Val(t, "A"), Val(t, "b"), 1)
i_j_vector(t, x_in, y_in) == stacked_map(x_in, y_in, Val(t, "A_inv"), Val(t, "b_inv"), 1)

ArrayOps == {"x_y_array", "i_j_array", "x_y_vector", "i_j_vector"}

ArrayResult(op, t, i, j) ==
    CASE op = "x_y_array" -> x_y_array(t, i, j)
      [] op = "i_j_array" -> i_j_array(t, i, j)
      [] op = "x_y_vector" -> x_y_vector(t, i, j)
      [] OTHER -> i_j_vector(t, i, j)

\* the input arrays: of rank r the shape (n), (2, n), (2, 3, n), ...
ShapeOf(r, n) == [k \in 1..r |-> IF k = r THEN n ELSE k + 1]
Shapes == {ShapeOf(r, n) : r \in 1..MaxRank, n \in 1..MaxLen}

RECURSIVE Flat(_, _)
Flat(ix, sh) ==
    IF Len(ix) = 0 THEN 0
    ELSE Flat(Front(ix), Front(sh)) * Last(sh) + (Last(ix) - 1)

\* np.arange(size).reshape(sh) * step + first
ArrIn(sh, first, step) ==
    [shape |-> sh, at |-> [ix \in Idx(sh) |-> R(first + step * Flat(ix, sh))]]

\* a call of one of the four array and vector forms; the instance is only read
EvalArray(t, op, i, j) ==
    LET r == ArrayResult(op, t, i, j)
    IN /\ last' = Call(op, t, <<i, j>>, r.outcome, r.ret)
       /\ UNCHANGED <<obj, store, writes, origin>>

\* ----------------------------------------------------------- specifications
\* the evaluation forms on one instance, after fits and element writes of it
EvalFit == \E x_y_points \in DstTriples : three_point_set(1, x_y_points, UnitTriple, "")
EvalWrite ==
    \E k \in 1..4, v \in WriteVals :
        \E pl \in Places(Fields[k]) : setitem(1, Fields[k], pl, v)
EvalPoints1 == \E op \in PointOps, p \in EvalPoints : EvalPoint(1, op, p)
EvalArrays1 ==
    \E op \in ArrayOps, sh1 \in Shapes, sh2 \in Shapes :
        EvalArray(1, op, ArrIn(sh1, 0, 1), ArrIn(sh2, 1, 2))

\* ---------------------------------------------------------------- equality
\* (M == N).all() for two 2x2 matrices, and for two vectors of length 2
mat_all_equal(M, N) == \A r \in 1..2, c \in 1..2 : M[r][c] = N[r][c]
vec_all_equal(u, v) == \A k \in 1..2 : u[k] = v[k]

\* faulty variant of __eq__: .any() in place of .all()
eq_any(self, other) ==
    IF (\E r \in 1..2, c \in 1..2 : Val(self, "A")[r][c] = Val(other, "A")[r][c])
           /\ (\E k \in 1..2 : Val(self, "b")[k] = Val(other, "b")[k])
    THEN TRUE
    ELSE FALSE

\* CoordinateTransform.__eq__(self, other)
eq(self, other) ==
    IF mat_all_equal(Val(self, "A"), Val(other, "A"))
           /\ vec_all_equal(Val(self, "b"), Val(other, "b"))
    THEN TRUE
    ELSE FALSE

\* a call self == other; both instances are only read
Eq(self, other) ==
    /\ last' = Call("__eq__", self, other, "ok", eq(self, other))
    /\ UNCHANGED <<obj, store, writes, origin>>

Compare == \E self \in Objs, other \in Objs : Eq(self, other)

\* the mutating operations of all instances, element writes included
FitW ==
    \E t \in Objs, x_y_points \in DstTriples, utm \in Labels :
        three_point_set(t, x_y_points, UnitTriple, utm)

NextW ==
    \/ \E t \in Objs : Construct(t)
    \/ FitW
    \/ Clone
    \/ CopyObj
    \/ Write
    \/ Compare

SpecW == Init /\ [][NextW]_vars

NextEval ==
    \/ EvalFit
    \/ EvalWrite
    \/ EvalPoints1
    \/ EvalArrays1

SpecEval == Init /\ [][NextEval]_vars

Next ==
    \/ \E t \in Objs : Construct(t)
    \/ Fit
    \/ Clone
    \/ CopyObj

Spec == Init /\ [][Next]_vars
\* ------------------------------------------------------------- properties
SingularTransform == "LinAlgError"

\* three points on one line (a duplicated point included), by the cross
\* product of the two differences from the anchor
Collinear(p) ==
    (p[2][1] - p[1][1]) * (p[3][2] - p[1][2])
        = (p[2][2] - p[1][2]) * (p[3][1] - p[1][1])

Coherent(t) ==
    /\ ~linalg_singular(Val(t, "A"))
    /\ Val(t, "A_inv") = linalg_inv(Val(t, "A"))
    /\ Val(t, "b_inv") = VNeg(MatVec(Val(t, "A_inv"), Val(t, "b")))

FitCalled == last.op = "three_point_set"
FitSrc == last.args.i_j_points
FitDst == last.args.x_y_points

\* C1: in every reachable state the cached inverse of every instance matches
\* its primary fields: A_inv = A^-1 and b_inv = -A_inv.b
C1_CacheCoherence == \A t \in Objs : Coherent(t)

\* C2: in every reachable state the stored matrix A of every instance is
\* invertible
C2_Invertible == \A t \in Objs : ~linalg_singular(Val(t, "A"))

\* C3: a fit whose source points and destination points are each
\* non-collinear returns normally, and afterwards forward(s_k) = d_k for
\* k = 0, 1, 2, with A = Ddst.Dsrc^-1 and b = d0 - A.s0
C3_ThreePointExact ==
    (FitCalled /\ ~Collinear(FitSrc) /\ ~Collinear(FitDst)) =>
        /\ last.outcome = "ok"
        /\ \A k \in 1..3 : x_y(last.t, np_vec(FitSrc[k])) = np_vec(FitDst[k])
        /\ Val(last.t, "A") = MatMul(Delta(FitDst), linalg_inv(Delta(FitSrc)))
        /\ Val(last.t, "b") =
               VSub(np_vec(FitDst[1]), MatVec(Val(last.t, "A"), np_vec(FitSrc[1])))

RoundTrip(t) ==
    \A p \in EvalPoints : i_j(t, x_y(t, p)) = p /\ x_y(t, i_j(t, p)) = p

C6_IdentityDefault ==
    last.op = "__init__" =>
        /\ Val(last.t, "A") = <<<<R(1), R(0)>>, <<R(0), R(1)>>>>
        /\ Val(last.t, "b") = <<R(0), R(0)>>
        /\ Val(last.t, "A_inv") = <<<<R(1), R(0)>>, <<R(0), R(1)>>>>
        /\ Val(last.t, "b_inv") = <<R(0), R(0)>>
        /\ \A p \in EvalPoints : x_y(last.t, p) = p /\ i_j(last.t, p) = p

C6_Witness ==
    /\ last.op = "__init__"
    /\ \E u \in Objs \ {last.t} : Val(u, "A") # np_identity
    /\ last.t = 1
ShapeMismatch == "ValueError"

ArrayCalled == last.op \in ArrayOps
SameShape == last.args[1].shape = last.args[2].shape
InShape == last.args[1].shape

\* the point formed from the elements at index ix of the two inputs, and of
\* the two outputs
InPoint(ix) == <<last.args[1].at[ix], last.args[2].at[ix]>>
OutPoint(ix) == <<last.ret[1].at[ix], last.ret[2].at[ix]>>

\* C7: in any transform state x_y_T(p) = x_y(p) and i_j_T(p) = i_j(p) for
\* every point p, and element [k] of the outputs of x_y_vector / x_y_array
\* (i_j_vector / i_j_array) is x_y (i_j) of the point formed from element
\* [k] of the two inputs
C7_EvalEquivalence ==
    /\ \A t \in Objs, p \in EvalPoints :
           x_y_T(t, p) = x_y(t, p) /\ i_j_T(t, p) = i_j(t, p)
    /\ (last.op \in {"x_y_T", "i_j_T"}) =>
           last.ret = (IF last.op = "x_y_T" THEN x_y(last.t, last.args)
                       ELSE i_j(last.t, last.args))
    /\ (ArrayCalled /\ last.outcome = "ok") =>
           /\ DOMAIN last.ret[1].at = DOMAIN last.args[1].at
           /\ DOMAIN last.ret[2].at = DOMAIN last.args[1].at
           /\ \A ix \in Idx(InShape) :
                  OutPoint(ix) =
                      (IF last.op \in {"x_y_array", "x_y_vector"}
                       THEN x_y(last.t, InPoint(ix))
                       ELSE i_j(last.t, InPoint(ix)))

C7_Witness ==
    /\ last.op = "i_j_array"
    /\ last.outcome = "ok"
    /\ InShape = ShapeOf(3, 2)
    /\ Val(last.t, "A_inv")[1][2] # Val(last.t, "A_inv")[2][1]
    /\ Val(last.t, "A")[1][2] # Val(last.t, "A")[2][1]

\* C8: a call of x_y_array, i_j_array, x_y_vector or i_j_vector whose two
\* inputs differ in shape or length ends in the ShapeMismatch error, returns
\* nothing, and leaves the transform's state unchanged
C8_ShapeMismatch ==
    /\ []((ArrayCalled /\ ~SameShape) =>
             (last.outcome = ShapeMismatch /\ last.ret = None))
    /\ [][(last'.op \in ArrayOps) => UNCHANGED <<obj, store>>]_vars

C8_Witness ==
    /\ last.op = "x_y_array"
    /\ last.args[1].shape = <<2, 1>>
    /\ last.args[2].shape = <<2, 2>>
    /\ last.outcome = ShapeMismatch
    /\ Val(last.t, "A") # np_identity

\* C9 as claimed: for two same-shaped inputs of any rank >= 1, x_y_array and
\* i_j_array return normally with two outputs of exactly the input shape
C9_ArrayShape_AnyRank ==
    (last.op \in {"x_y_array", "i_j_array"} /\ SameShape) =>
        /\ last.outcome = "ok"
        /\ last.ret[1].shape = InShape
        /\ last.ret[2].shape = InShape

\* C9 amended: for two same-shaped inputs of rank >= 2, x_y_array and
\* i_j_array return normally with two outputs of exactly the input shape;
\* for same-shaped inputs of rank 1 they end in IndexError
C9_ArrayShape ==
    (last.op \in {"x_y_array", "i_j_array"} /\ SameShape) =>
        IF Len(InShape) >= 2
        THEN /\ last.outcome = "ok"
             /\ last.ret[1].shape = InShape
             /\ last.ret[2].shape = InShape
        ELSE last.outcome = "IndexError"

C9_Witness ==
    /\ last.op = "x_y_array"
    /\ InShape = ShapeOf(3, 2)
    /\ SameShape
    /\ last.outcome = "ok"
    /\ last.ret[1].shape = <<2, 3, 2>>
Vals(t) == [k \in 1..4 |-> Val(t, Fields[k])]
Ids(t) == {obj[t][Fields[k]] : k \in 1..4}
Mutations == {"three_point_set", "copy_obj", "setitem"}

\* C10: t2 = t1.clone() yields a distinct instance whose A, b, A_inv, b_inv
\* equal t1's at the time of the call and share no storage with them, and
\* every later mutation of t2 (a fit, copy_obj, an in-place element write)
\* leaves t1's four fields unchanged, and vice versa
C10_CloneIndependence ==
    [][ /\ \A t1 \in Objs, t2 \in Objs :
               (last'.op = "clone" /\ last'.t = t1 /\ last'.ret = t2) =>
                   /\ t2 # t1
                   /\ Vals(t2)' = Vals(t1)
                   /\ Vals(t1)' = Vals(t1)
                   /\ Ids(t2)' \cap Ids(t1)' = {}
        /\ \A t1 \in Objs, t2 \in Objs :
               (origin[t2] = t1 /\ origin'[t2] = t1 /\ last'.op \in Mutations) =>
                   /\ (last'.t = t2) => (Vals(t1)' = Vals(t1))
                   /\ (last'.t = t1) => (Vals(t2)' = Vals(t2))
      ]_vars

C10_Witness ==
    /\ last.op = "setitem"
    /\ last.args.f = "A"
    /\ origin[last.t] # 0
    /\ Val(origin[last.t], "A") # np_identity
    /\ Val(last.t, "A") # Val(origin[last.t], "A")
\* C11: t.copy_obj(o) returns the same object t, sets t's A, b, A_inv, b_inv
\* equal to o's, leaves o unchanged and shares no storage with o; a later
\* mutation of o (a fit, copy_obj, an in-place element write) does not
\* change t and a later mutation of t does not change o
C11_AssignFrom ==
    [][ /\ \A t \in Objs, o \in Objs :
               (last'.op = "copy_obj" /\ last'.t = t /\ last'.args = o) =>
                   /\ last'.ret = t
                   /\ Vals(t)' = Vals(o)
                   /\ Vals(o)' = Vals(o)
                   /\ (t # o) => (obj'[o] = obj[o] /\ Ids(t)' \cap Ids(o)' = {})
        /\ \A t \in Objs, o \in Objs :
               (t # o /\ last'.op \in Mutations /\ last'.t = o) =>
                   (Vals(t)' = Vals(t) /\ Ids(t)' \cap Ids(o)' = {})
      ]_vars

C11_Witness ==
    /\ last.op = "copy_obj"
    /\ last.t # last.args
    /\ writes > 0
    /\ Val(last.t, "A") # np_identity
    /\ Val(last.t, "b") # np_zeros
    /\ obj[last.t].utm # obj[last.args].utm
SameAb(t, o) == Val(t, "A") = Val(o, "A") /\ Val(t, "b") = Val(o, "b")

\* C12: t.__eq__(o) is True exactly when A and b of t equal those of o in
\* every element; A_inv, b_inv and the label play no part, so t == t.clone()
\* and t == t.copy_obj(o) == o hold, and two transforms that differ only in
\* label compare equal
C12_Equality ==
    /\ \A t \in Objs, o \in Objs : eq(t, o) <=> SameAb(t, o)
    /\ (last.op = "__eq__") => (last.ret <=> SameAb(last.t, last.args))
    /\ (last.op = "clone") => (eq(last.t, last.ret) /\ eq(last.ret, last.t))
    /\ (last.op = "copy_obj") => (eq(last.t, last.args) /\ eq(last.args, last.t))

C12_Witness ==
    /\ last.op = "__eq__"
    /\ last.ret = TRUE
    /\ last.t # last.args
    /\ Val(last.t, "A") # np_identity
    /\ Val(last.t, "A_inv") # Val(last.args, "A_inv")
    /\ obj[last.t].utm # obj[last.args].utm
====
